---------------------------- MODULE Spec2Model ----------------------------
(***************************************************************************)
(* SokHub marketplace: stock reservation, carts, checkout and orders.      *)
(*                                                                         *)
(* The product table, the carts and the orders are modelled as the rows    *)
(* the Django views read and write.  Every request handler is one action;  *)
(* the handlers of order/views.py run to completion between two states.    *)
(* An empty cart and a missing Cart row are the same state: every handler  *)
(* returns without touching the database in both cases.                    *)
(***************************************************************************)
EXTENDS Integers, Sequences, FiniteSets, TLC

(***************************************************************************)
(* Bounds of the model.                                                    *)
(***************************************************************************)
\* Every handler reads and writes only the Product row of the cart item or
\* order item it works on, and a cart holds one item per product
\* (unique_together), so one product shows every behaviour of the counters.
Products == {"p1"}
Customers == {"c1", "c2"}
InitStock == 2      \* units each product starts with
MaxStock == 3       \* cap on quantity
MaxDeficit == 2     \* cap on how far a counter may fall below zero
MaxCartQty == 2     \* cap on the quantity of a cart item
MaxOrders == 1      \* cap on the number of orders
MaxReserve == 2     \* largest quantity passed to a single reserve_stock call
Callers == {"t1", "t2", "t3"}   \* requests running reserve_stock at once
NumOrderNumbers == 3    \* size of the space generate_order_number draws from
MaxStored == 2      \* no order creation starts once this many are stored
Creators == {"w1", "w2"}        \* requests saving a new Order at once
MaxSessions == 2    \* chat sessions that can exist
MaxMessages == 2    \* ChatMessage rows that can exist

VARIABLES
    prod,       \* Product rows: p -> record of the inventory fields
    cart,       \* CartItem rows: customer -> product -> quantity (0: no row)
    orders,     \* Order rows with their OrderItem rows, in creation order
    last,       \* the request handled last and its outcome
    \* Product.reserve_stock called on one row
    p_row,      \* the Product row in the database
    p_call,     \* the last sequential call: argument, row before, return value
    row0,       \* the row when the concurrent calls started
    lock,       \* the caller holding the row lock of select_for_update
    pc,         \* where each concurrent caller is in reserve_stock
    snapshot,   \* the row each concurrent caller read under the lock
    req,        \* the quantity each concurrent caller asks for
    result,     \* what reserve_stock returned to each concurrent caller
    \* Order.save of new orders
    stored,     \* order_number of the Order rows, in insertion order
    w_pc,       \* where each creator is in Order.save
    w_number,   \* order_number of the instance each creator saves (0: unset)
    \* chat_send
    chat_cfg,       \* the HAS_* flags the views module set at import
    chat_sessions,  \* the ChatSession rows, by session_id
    chat_messages,  \* the ChatMessage rows, in insertion order
    chat_last       \* the last request chat_send served, and its reply

shop_vars == <<prod, cart, orders, last>>
call_vars == <<p_row, p_call>>
conc_vars == <<row0, lock, pc, snapshot, req, result>>
number_vars == <<stored, w_pc, w_number>>
chat_vars == <<chat_cfg, chat_sessions, chat_messages, chat_last>>
not_shop_vars == <<call_vars, conc_vars, number_vars, chat_vars>>
not_reserve_vars == <<shop_vars, number_vars, chat_vars>>
not_number_vars == <<shop_vars, call_vars, conc_vars, chat_vars>>
not_chat_vars == <<shop_vars, call_vars, conc_vars, number_vars>>
vars == <<shop_vars, call_vars, conc_vars, number_vars, chat_vars>>

Max(a, b) == IF a >= b THEN a ELSE b

RECURSIVE SumOver(_, _)
SumOver(f, S) ==
    IF S = {} THEN 0
    ELSE LET x == CHOOSE y \in S : TRUE IN f[x] + SumOver(f, S \ {x})

(***************************************************************************)
(* product/models.py: Product                                              *)
(***************************************************************************)
get_available_quantity(p) == Max(0, p.quantity - p.reservation_count)

is_in_stock(p) ==
    IF ~p.is_track_inventory THEN TRUE
    ELSE IF p.allow_backorder THEN TRUE
    ELSE get_available_quantity(p) > 0

can_fulfill_order(p, n) ==
    IF ~p.is_track_inventory THEN TRUE
    ELSE IF p.allow_backorder THEN TRUE
    ELSE get_available_quantity(p) >= n

\* reserve_stock refusing a request for exactly the available quantity.
reserve_stock_strict(p, n) ==
    IF ~p.is_track_inventory THEN [ret |-> TRUE, row |-> p]
    ELSE IF ~p.allow_backorder /\ get_available_quantity(p) <= n
    THEN [ret |-> FALSE, row |-> p]
    ELSE [ret |-> TRUE, row |-> [p EXCEPT !.reservation_count = @ + n]]

\* reserve_stock run alone: ret is the value it returns, row the Product row
\* it leaves behind.
reserve_stock(p, n) ==
    IF ~p.is_track_inventory THEN [ret |-> TRUE, row |-> p]
    ELSE IF ~p.allow_backorder /\ get_available_quantity(p) < n
    THEN [ret |-> FALSE, row |-> p]
    ELSE [ret |-> TRUE, row |-> [p EXCEPT !.reservation_count = @ + n]]

release_stock(p, n) ==
    IF ~p.is_track_inventory THEN p
    ELSE [p EXCEPT !.reservation_count = @ - n]

commit_stock(p, n) ==
    IF ~p.is_track_inventory THEN p
    ELSE [p EXCEPT !.quantity = @ - n,
                   !.reservation_count = @ - n,
                   !.purchase_count = @ + n]

\* Product.save(): the status follows the quantity.
Product_save(p) ==
    IF p.is_track_inventory /\ p.quantity <= 0 /\ ~p.allow_backorder
    THEN [p EXCEPT !.status = "out_of_stock", !.is_available = FALSE]
    ELSE IF p.status = "out_of_stock" /\ p.quantity > 0
    THEN [p EXCEPT !.status = "active", !.is_available = TRUE]
    ELSE p

(***************************************************************************)
(* order/models.py: CartItem                                               *)
(***************************************************************************)
\* CartItem.save(): old = 0 is a new row (pk is None).  ok = FALSE is the
\* ValidationError, raised before the row is written.
CartItem_save(p, old, new) ==
    IF old = 0
    THEN [ok |-> reserve_stock(p, new).ret,
          product |-> reserve_stock(p, new).row]
    ELSE IF new - old > 0
    THEN [ok |-> reserve_stock(p, new - old).ret,
          product |-> reserve_stock(p, new - old).row]
    ELSE IF new - old < 0
    THEN [ok |-> TRUE, product |-> release_stock(p, old - new)]
    ELSE [ok |-> TRUE, product |-> p]

CartItem_delete(p, qty) ==
    IF p.is_track_inventory THEN release_stock(p, qty) ELSE p

(***************************************************************************)
(* Helpers on the tables.                                                  *)
(***************************************************************************)
InRange(pt) ==
    \A p \in Products :
        /\ pt[p].quantity \in (-MaxDeficit)..MaxStock
        /\ pt[p].reservation_count \in (-MaxDeficit)..(MaxStock + MaxCartQty)

CartItems(c) == {p \in Products : cart[c][p] > 0}

\* Units of product p sitting in the carts of table ct.
CartTotal(ct, p) == SumOver([c \in Customers |-> ct[c][p]], Customers)

EmptyCart == [p \in Products |-> 0]

Done(op, outcome, c) == last' = [op |-> op, outcome |-> outcome, customer |-> c]

(***************************************************************************)
(* order/views.py: cart handlers                                           *)
(***************************************************************************)
cart_add(c, p, n) ==
    /\ UNCHANGED not_shop_vars
    /\ prod[p].status = "active" /\ prod[p].is_available
    /\ cart[c][p] + n <= MaxCartQty
    /\ UNCHANGED orders
    /\ IF cart[c][p] = 0
       THEN LET r == CartItem_save(prod[p], 0, n) IN
            IF r.ok
            THEN /\ prod' = [prod EXCEPT ![p] = r.product]
                 /\ cart' = [cart EXCEPT ![c][p] = n]
                 /\ Done("cart_add", "ok", c)
            ELSE /\ UNCHANGED <<prod, cart>>
                 /\ Done("cart_add", "no_stock", c)
       ELSE LET new_quantity == cart[c][p] + n IN
            IF ~can_fulfill_order(prod[p], new_quantity)
            THEN /\ UNCHANGED <<prod, cart>>
                 /\ Done("cart_add", "no_stock", c)
            ELSE LET r == CartItem_save(prod[p], cart[c][p], new_quantity) IN
                 IF r.ok
                 THEN /\ prod' = [prod EXCEPT ![p] = r.product]
                      /\ cart' = [cart EXCEPT ![c][p] = new_quantity]
                      /\ Done("cart_add", "ok", c)
                 ELSE /\ UNCHANGED <<prod, cart>>
                      /\ Done("cart_add", "no_stock", c)
    /\ InRange(prod')

cart_remove(c, p) ==
    /\ UNCHANGED not_shop_vars
    /\ cart[c][p] > 0
    /\ prod' = [prod EXCEPT ![p] =
                   CartItem_delete(release_stock(@, cart[c][p]), cart[c][p])]
    /\ cart' = [cart EXCEPT ![c][p] = 0]
    /\ Done("cart_remove", "ok", c)
    /\ UNCHANGED orders
    /\ InRange(prod')

\* One quantity_<id> field of the POST; a request with several fields is the
\* sequence of its fields.
cart_update(c, p, quantity) ==
    /\ UNCHANGED not_shop_vars
    /\ cart[c][p] > 0
    /\ UNCHANGED orders
    /\ IF quantity < 1
       THEN /\ prod' = [prod EXCEPT ![p] =
                   CartItem_delete(release_stock(@, cart[c][p]), cart[c][p])]
            /\ cart' = [cart EXCEPT ![c][p] = 0]
            /\ Done("cart_update", "deleted", c)
       ELSE LET diff == quantity - cart[c][p] IN
            IF diff > 0 /\ ~reserve_stock(prod[p], diff).ret
            THEN /\ UNCHANGED <<prod, cart>>
                 /\ Done("cart_update", "no_stock", c)
            ELSE LET first == IF diff > 0 THEN reserve_stock(prod[p], diff).row
                              ELSE IF diff < 0 THEN release_stock(prod[p], -diff)
                              ELSE prod[p]
                     r == CartItem_save(first, cart[c][p], quantity)
                 IN
                 IF r.ok
                 THEN /\ prod' = [prod EXCEPT ![p] = r.product]
                      /\ cart' = [cart EXCEPT ![c][p] = quantity]
                      /\ Done("cart_update", "ok", c)
                 ELSE \* ValidationError leaves the view: the first
                      \* reservation stays, the row is not written
                      /\ prod' = [prod EXCEPT ![p] = first]
                      /\ UNCHANGED cart
                      /\ Done("cart_update", "error", c)
    /\ InRange(prod')

cart_clear(c) ==
    /\ UNCHANGED not_shop_vars
    /\ CartItems(c) # {}
    /\ prod' = [p \in Products |->
                   IF cart[c][p] > 0 THEN release_stock(prod[p], cart[c][p])
                   ELSE prod[p]]
    /\ cart' = [cart EXCEPT ![c] = EmptyCart]
    /\ Done("cart_clear", "ok", c)
    /\ UNCHANGED orders
    /\ InRange(prod')

(***************************************************************************)
(* order/views.py: checkout                                                *)
(***************************************************************************)
NewOrder(c) ==
    [customer |-> c,
     items |-> cart[c],
     is_cancelled |-> [p \in Products |-> FALSE],
     status |-> "confirmed",
     payment_status |-> "pending",
     delete_requested |-> FALSE,
     delete_approved |-> FALSE]

\* The stock validation that opens checkout_view: the reason it gives for
\* cart item p, "" when p passes.
stock_validation(p, qty) ==
    IF ~is_in_stock(p) THEN "out_of_stock"
    ELSE IF ~can_fulfill_order(p, qty) THEN "insufficient"
    ELSE ""

\* A POST with a valid form.  exc is an exception raised inside the
\* transaction by anything but reserve_stock (invoice PDF, storage, database).
checkout_view(c, exc) ==
    LET items == CartItems(c)
        rejected == {p \in items : stock_validation(prod[p], cart[c][p]) # ""}
    IN
    /\ UNCHANGED not_shop_vars
    /\ items # {}
    /\ IF rejected # {}
       THEN \* the first cart item that fails decides the message
            /\ \E p \in rejected :
                   Done("checkout", stock_validation(prod[p], cart[c][p]), c)
            /\ UNCHANGED <<prod, cart, orders>>
       ELSE /\ Len(orders) < MaxOrders
            /\ IF exc \/ \E p \in items : ~reserve_stock(prod[p], cart[c][p]).ret
               THEN \* the transaction is rolled back, then the handler
                    \* releases the quantity of every cart item
                    /\ prod' = [p \in Products |->
                                   IF p \in items
                                   THEN release_stock(prod[p], cart[c][p])
                                   ELSE prod[p]]
                    /\ UNCHANGED <<cart, orders>>
                    /\ Done("checkout", "failed", c)
               ELSE /\ prod' = [p \in Products |->
                                   IF p \in items
                                   THEN commit_stock(
                                            reserve_stock(prod[p], cart[c][p]).row,
                                            cart[c][p])
                                   ELSE prod[p]]
                    /\ orders' = Append(orders, NewOrder(c))
                    /\ cart' = [cart EXCEPT ![c] = EmptyCart]
                    /\ Done("checkout", "ok", c)
    /\ InRange(prod')

(***************************************************************************)
(* order/models.py: Order and OrderItem                                    *)
(***************************************************************************)
OrderItem_commit_stock(p, o, pid) ==
    IF p.is_track_inventory /\ ~o.is_cancelled[pid] /\ o.items[pid] > 0
    THEN commit_stock(p, o.items[pid])
    ELSE p

mark_as_paid(o) ==
    [o EXCEPT !.payment_status = "completed", !.status = "confirmed"]

can_be_cancelled(o) == o.status \in {"pending", "confirmed", "processing"}

\* OrderItem.restore_stock on the row of the item's product
OrderItem_restore_stock(p, o, pid) ==
    IF p.is_track_inventory /\ ~o.is_cancelled[pid] /\ o.items[pid] > 0
    THEN release_stock(p, o.items[pid])
    ELSE p

\* Order.STATUS_CHOICES
STATUS_CHOICES ==
    {"pending", "confirmed", "processing", "shipped", "delivered",
     "cancelled", "refunded"}

\* OrderStatusUpdateForm.__init__: the choices of the status field; a
\* current status without a branch keeps the choices of the model field.
OrderStatusUpdateForm_choices(current_status) ==
    CASE current_status = "pending" -> {"confirmed", "processing", "cancelled"}
      [] current_status = "confirmed" -> {"processing", "shipped", "cancelled"}
      [] current_status = "processing" -> {"shipped", "cancelled"}
      [] current_status = "shipped" -> {"delivered"}
      [] current_status = "delivered" -> {}
      [] current_status = "cancelled" -> {}
      [] OTHER -> STATUS_CHOICES

\* valid_transitions of AIVendorService.update_order_status
valid_transitions(current_status) ==
    CASE current_status = "pending" -> {"confirmed", "cancelled"}
      [] current_status = "confirmed" -> {"processing", "cancelled"}
      [] current_status = "processing" -> {"shipped", "cancelled"}
      [] current_status = "shipped" -> {"delivered"}
      [] OTHER -> {}

\* A guard that lets every payment confirmation through.
payment_never_processed(o) == FALSE

\* `if order.payment_status != 'pending'` of confirm_payment
payment_already_processed(o) == o.payment_status # "pending"

(***************************************************************************)
(* order/views.py: order handlers                                          *)
(***************************************************************************)
\* form_valid: OrderPaymentForm accepts the posted payment details.
confirm_payment(i, form_valid) ==
    /\ UNCHANGED not_shop_vars
    /\ i \in 1..Len(orders)
    /\ IF payment_already_processed(orders[i])
       THEN /\ UNCHANGED <<prod, orders>>
            /\ Done("confirm_payment", "already_processed", orders[i].customer)
       ELSE IF ~form_valid
       THEN /\ UNCHANGED <<prod, orders>>
            /\ Done("confirm_payment", "invalid", orders[i].customer)
       ELSE /\ orders' = [orders EXCEPT ![i] = mark_as_paid(@)]
            /\ prod' = [p \in Products |->
                           OrderItem_commit_stock(prod[p], orders[i], p)]
            /\ Done("confirm_payment", "ok", orders[i].customer)
    /\ UNCHANGED cart
    /\ InRange(prod')

vendor_mark_payment_completed(i) ==
    /\ UNCHANGED not_shop_vars
    /\ i \in 1..Len(orders)
    /\ orders' = [orders EXCEPT ![i].payment_status = "completed"]
    /\ Done("vendor_mark_payment_completed", "ok", orders[i].customer)
    /\ UNCHANGED <<prod, cart>>

bulk_update_orders(i, action) ==
    /\ UNCHANGED not_shop_vars
    /\ i \in 1..Len(orders)
    /\ LET o == orders[i] IN
       IF action = "confirm" /\ o.status = "pending"
       THEN /\ orders' = [orders EXCEPT ![i].status = "confirmed"]
            /\ Done("bulk_update_orders", "ok", o.customer)
       ELSE IF action = "process" /\ o.status = "confirmed"
       THEN /\ orders' = [orders EXCEPT ![i].status = "processing"]
            /\ Done("bulk_update_orders", "ok", o.customer)
       ELSE IF action = "ship" /\ o.status = "processing"
       THEN /\ orders' = [orders EXCEPT ![i].status = "shipped"]
            /\ Done("bulk_update_orders", "ok", o.customer)
       ELSE IF action = "cancel" /\ can_be_cancelled(o)
       THEN /\ orders' = [orders EXCEPT ![i].status = "cancelled"]
            /\ Done("bulk_update_orders", "ok", o.customer)
       ELSE /\ UNCHANGED orders
            /\ Done("bulk_update_orders", "skipped", o.customer)
    /\ UNCHANGED <<prod, cart>>

\* vendor_order_detail, a POST whose status field is `status`
vendor_order_detail(i, status) ==
    /\ UNCHANGED not_shop_vars
    /\ i \in 1..Len(orders)
    /\ IF status \in OrderStatusUpdateForm_choices(orders[i].status)
       THEN /\ orders' = [orders EXCEPT ![i].status = status]
            /\ Done("vendor_order_detail", "ok", orders[i].customer)
       ELSE /\ UNCHANGED orders
            /\ Done("vendor_order_detail", "invalid", orders[i].customer)
    /\ UNCHANGED <<prod, cart>>

\* AIVendorService.update_order_status; target_status is what status_map
\* gives for the spoken status, "" when it has no entry.
update_order_status(i, target_status) ==
    /\ UNCHANGED not_shop_vars
    /\ i \in 1..Len(orders)
    /\ IF target_status = ""
       THEN /\ UNCHANGED orders
            /\ Done("update_order_status", "not_recognized", orders[i].customer)
       ELSE IF target_status \notin valid_transitions(orders[i].status)
       THEN /\ UNCHANGED orders
            /\ Done("update_order_status", "refused", orders[i].customer)
       ELSE /\ orders' = [orders EXCEPT ![i].status = target_status]
            /\ Done("update_order_status", "ok", orders[i].customer)
    /\ UNCHANGED <<prod, cart>>

\* request_order_deletion with a valid reason
request_order_deletion(i) ==
    /\ UNCHANGED not_shop_vars
    /\ i \in 1..Len(orders)
    /\ IF ~can_be_cancelled(orders[i])
       THEN /\ UNCHANGED orders
            /\ Done("request_order_deletion", "refused", orders[i].customer)
       ELSE /\ orders' = [orders EXCEPT ![i].delete_requested = TRUE]
            /\ Done("request_order_deletion", "ok", orders[i].customer)
    /\ UNCHANGED <<prod, cart>>

\* The view approve_order_deletion: get_object_or_404 returns an Order, and
\* the call of .distinct() on it raises AttributeError before anything is
\* written.
approve_order_deletion(i) ==
    /\ UNCHANGED not_shop_vars
    /\ i \in 1..Len(orders)
    /\ orders[i].delete_requested /\ ~orders[i].delete_approved
    /\ Done("approve_order_deletion", "error", orders[i].customer)
    /\ UNCHANGED <<prod, cart, orders>>

\* Order.approve_deletion
approve_deletion(i) ==
    /\ UNCHANGED not_shop_vars
    /\ i \in 1..Len(orders)
    /\ LET o == orders[i] IN
       /\ orders' = [orders EXCEPT
              ![i].delete_approved = TRUE,
              ![i].status = "cancelled",
              ![i].is_cancelled =
                  [p \in Products |->
                      \/ o.is_cancelled[p]
                      \/ (prod[p].is_track_inventory /\ o.items[p] > 0)]]
       /\ prod' = [p \in Products |-> OrderItem_restore_stock(prod[p], o, p)]
       /\ Done("approve_deletion", "ok", o.customer)
    /\ UNCHANGED cart
    /\ InRange(prod')

(***************************************************************************)
(* product/views.py: vendor stock management                               *)
(***************************************************************************)
vendor_stock_management(p, adjustment_type, quantity) ==
    /\ UNCHANGED not_shop_vars
    /\ IF adjustment_type = "add"
       THEN /\ prod' = [prod EXCEPT ![p] =
                           Product_save([@ EXCEPT !.quantity = @ + quantity])]
            /\ Done("vendor_stock_management", "ok", "none")
       ELSE IF adjustment_type = "remove"
       THEN IF prod[p].quantity >= quantity
            THEN /\ prod' = [prod EXCEPT ![p] =
                           Product_save([@ EXCEPT !.quantity = @ - quantity])]
                 /\ Done("vendor_stock_management", "ok", "none")
            ELSE /\ UNCHANGED prod
                 /\ Done("vendor_stock_management", "refused", "none")
       ELSE /\ prod' = [prod EXCEPT ![p] =
                           Product_save([@ EXCEPT !.quantity = quantity])]
            /\ Done("vendor_stock_management", "ok", "none")
    /\ UNCHANGED <<cart, orders>>
    /\ InRange(prod')

(***************************************************************************)
(* Initial state: the catalogue as the vendors published it, no carts and  *)
(* no orders.                                                              *)
(***************************************************************************)
ShopInit ==
    /\ prod \in [Products ->
            [quantity : {InitStock}, reservation_count : {0},
             purchase_count : {0}, is_track_inventory : BOOLEAN,
             allow_backorder : BOOLEAN, status : {"active"},
             is_available : {TRUE}]]
    /\ cart = [c \in Customers |-> EmptyCart]
    /\ orders = <<>>
    /\ last = [op |-> "none", outcome |-> "none", customer |-> "none"]

\* A Product row as the concurrency and contract checks start from it.
Rows ==
    [quantity : 0..MaxStock,
     reservation_count : (-1)..(MaxStock + 1),
     purchase_count : {0},
     is_track_inventory : BOOLEAN,
     allow_backorder : BOOLEAN,
     status : {"active"},
     is_available : {TRUE}]

DefaultRow ==
    [quantity |-> InitStock, reservation_count |-> 0, purchase_count |-> 0,
     is_track_inventory |-> TRUE, allow_backorder |-> FALSE,
     status |-> "active", is_available |-> TRUE]

NoCall == [called |-> FALSE, n |-> 0, ret |-> TRUE, pre |-> DefaultRow]

CallIdle ==
    /\ p_row = DefaultRow
    /\ p_call = NoCall

ConcIdle ==
    /\ row0 = DefaultRow
    /\ lock = "none"
    /\ pc = [t \in Callers |-> "done"]
    /\ snapshot = [t \in Callers |-> DefaultRow]
    /\ req = [t \in Callers |-> 0]
    /\ result = [t \in Callers |-> "none"]

ShopIdle ==
    /\ prod = [p \in Products |-> DefaultRow]
    /\ cart = [c \in Customers |-> EmptyCart]
    /\ orders = <<>>
    /\ last = [op |-> "none", outcome |-> "none", customer |-> "none"]

NumberIdle ==
    /\ stored = <<>>
    /\ w_pc = [w \in Creators |-> "idle"]
    /\ w_number = [w \in Creators |-> 0]

\* A piece of text: a literal, or an f-string around one interpolated value.
FString(prefix, arg, suffix) == [prefix |-> prefix, arg |-> arg, suffix |-> suffix]
Literal(text) == FString(text, <<>>, "")
TextEmpty(t) == t.prefix = "" /\ t.arg = <<>> /\ t.suffix = ""

\* A key the JSON object of a reply does not have.
NoKey == "(absent)"

NoBody == [kind |-> "unparsable", msg_type |-> "absent", message |-> <<>>,
           session_id |-> 0]

ChatIdle ==
    /\ chat_cfg = [HAS_ENHANCED_AI |-> TRUE, HAS_CHAT_SERVICE |-> TRUE,
                   HAS_CHAT_MODELS |-> TRUE]
    /\ chat_sessions = [i \in 1..MaxSessions |-> [state |-> "none", user |-> "none"]]
    /\ chat_messages = <<>>
    /\ chat_last = [handled |-> FALSE, method |-> "GET", body |-> NoBody,
                    raised |-> FALSE, stored |-> 0,
                    reply |-> [status |-> 0, success |-> FALSE, error |-> NoKey,
                               response |-> Literal(""), intent |-> NoKey]]

Init == ShopInit /\ CallIdle /\ ConcIdle /\ NumberIdle /\ ChatIdle

CartNext ==
    \/ \E c \in Customers, p \in Products, n \in 1..MaxCartQty : cart_add(c, p, n)
    \/ \E c \in Customers, p \in Products : cart_remove(c, p)
    \/ \E c \in Customers, p \in Products, q \in 0..MaxCartQty : cart_update(c, p, q)
    \/ \E c \in Customers : cart_clear(c)

CartSpec == Init /\ [][CartNext]_vars

Next ==
    \/ \E c \in Customers, p \in Products, n \in 1..MaxCartQty : cart_add(c, p, n)
    \/ \E c \in Customers, p \in Products : cart_remove(c, p)
    \/ \E c \in Customers, p \in Products, q \in 0..MaxCartQty : cart_update(c, p, q)
    \/ \E c \in Customers : cart_clear(c)
    \/ \E c \in Customers, exc \in BOOLEAN : checkout_view(c, exc)
    \/ \E i \in 1..MaxOrders, form_valid \in BOOLEAN : confirm_payment(i, form_valid)
    \/ \E i \in 1..MaxOrders : vendor_mark_payment_completed(i)
    \/ \E i \in 1..MaxOrders, a \in {"confirm", "process", "ship", "cancel"} :
           bulk_update_orders(i, a)
    \/ \E p \in Products, t \in {"add", "remove", "set"}, n \in 1..MaxStock :
           vendor_stock_management(p, t, n)

Spec == Init /\ [][Next]_vars

(***************************************************************************)
(* The life of an order: a customer places it through checkout, and the    *)
(* customer, the vendor and the assistant then handle it.  One order of    *)
(* one customer is followed: no handler of an order reads another order.   *)
(***************************************************************************)
Buyer == "c1"

\* The spoken statuses of status_map lead to these, or to none ("").
SpokenTargets ==
    {"", "pending", "confirmed", "processing", "shipped", "delivered", "cancelled"}

\* The checkout that places the order.
first_checkout(exc) ==
    /\ orders = <<>>
    /\ checkout_view(Buyer, exc)

OrderNext ==
    \/ \E p \in Products, n \in 1..MaxCartQty : cart_add(Buyer, p, n)
    \/ \E exc \in BOOLEAN : first_checkout(exc)
    \/ \E i \in 1..MaxOrders, form_valid \in BOOLEAN : confirm_payment(i, form_valid)
    \/ \E i \in 1..MaxOrders : vendor_mark_payment_completed(i)
    \/ \E i \in 1..MaxOrders, a \in {"confirm", "process", "ship", "cancel"} :
           bulk_update_orders(i, a)
    \/ \E i \in 1..MaxOrders, status \in STATUS_CHOICES \cup {""} :
           vendor_order_detail(i, status)
    \/ \E i \in 1..MaxOrders, t \in SpokenTargets : update_order_status(i, t)
    \/ \E i \in 1..MaxOrders : request_order_deletion(i)
    \/ \E i \in 1..MaxOrders : approve_order_deletion(i)
    \/ \E i \in 1..MaxOrders : approve_deletion(i)

OrderSpec == Init /\ [][OrderNext]_vars

\* C11: 'delivered' and 'cancelled' are final: no operation changes the
\* status of an order that is delivered or cancelled.
C11_FinalStatusesStay ==
    [][\A i \in 1..Len(orders) :
          orders[i].status \in {"delivered", "cancelled"}
              => orders'[i].status = orders[i].status]_vars

\* C12: every operation that moves an order to 'cancelled' restores the
\* stock of its items: the units the order deducted from an inventory-tracked
\* product are back in its quantity after the step.
C12_CancellationRestoresStock ==
    [][\A i \in 1..Len(orders) :
          (orders[i].status # "cancelled" /\ orders'[i].status = "cancelled")
              => \A p \in Products :
                    (/\ prod[p].is_track_inventory
                     /\ orders[i].items[p] > 0
                     /\ ~orders[i].is_cancelled[p])
                        => prod'[p].quantity = prod[p].quantity + orders[i].items[p]]_vars

\* C14: confirm_payment changes an order only when its payment_status is
\* 'pending', and then sets payment_status 'completed' and status
\* 'confirmed'; otherwise the order and the product counters stay as they
\* are.  A payment_status of 'completed' is never changed by any operation.
C14_ConfirmPaymentOnlyWhenPending ==
    [][/\ last'.op = "confirm_payment" =>
            /\ \A i \in 1..Len(orders) :
                  orders'[i] # orders[i]
                      => /\ orders[i].payment_status = "pending"
                         /\ orders'[i].payment_status = "completed"
                         /\ orders'[i].status = "confirmed"
            /\ (\A i \in 1..Len(orders) : orders'[i] = orders[i]) => prod' = prod
            /\ last'.outcome = "ok" =>
                  \E i \in 1..Len(orders) :
                      /\ orders[i].payment_status = "pending"
                      /\ orders'[i].payment_status = "completed"
                      /\ orders'[i].status = "confirmed"
       /\ \A i \in 1..Len(orders) :
              orders[i].payment_status = "completed"
                  => orders'[i].payment_status = "completed"]_vars

\* A paid order that the vendor has shipped since, and a confirm_payment
\* request on it that was turned away.
C14_Witness ==
    /\ last.op = "confirm_payment"
    /\ last.outcome = "already_processed"
    /\ \E i \in 1..Len(orders) :
          /\ orders[i].payment_status = "completed"
          /\ orders[i].status = "shipped"

(***************************************************************************)
(* The vendor's status form, posted on an order in any status of           *)
(* STATUS_CHOICES.                                                         *)
(***************************************************************************)
StoredOrders ==
    [customer : {Buyer},
     items : [Products -> 1..MaxCartQty],
     is_cancelled : {[p \in Products |-> FALSE]},
     status : STATUS_CHOICES,
     payment_status : {"pending", "completed"},
     delete_requested : BOOLEAN,
     delete_approved : {FALSE}]

FormInit ==
    /\ prod = [p \in Products |-> DefaultRow]
    /\ cart = [c \in Customers |-> EmptyCart]
    /\ \E o \in StoredOrders : orders = <<o>>
    /\ last = [op |-> "none", outcome |-> "none", customer |-> "none"]
    /\ CallIdle /\ ConcIdle /\ NumberIdle /\ ChatIdle

FormNext ==
    \E i \in 1..MaxOrders, status \in STATUS_CHOICES \cup {""} :
        vendor_order_detail(i, status)

FormSpec == FormInit /\ [][FormNext]_vars

\* The targets the vendor may select, by current status.
ForwardTargets(current_status) ==
    CASE current_status = "pending" -> {"confirmed", "processing", "cancelled"}
      [] current_status = "confirmed" -> {"processing", "shipped", "cancelled"}
      [] current_status = "processing" -> {"shipped", "cancelled"}
      [] current_status = "shipped" -> {"delivered"}
      [] OTHER -> {}

DeletionNext ==
    \/ \E c \in Customers, p \in Products, n \in 1..MaxCartQty : cart_add(c, p, n)
    \/ \E c \in Customers, exc \in BOOLEAN : checkout_view(c, exc)
    \/ \E i \in 1..MaxOrders : approve_deletion(i)

DeletionSpec == Init /\ [][DeletionNext]_vars

\* C13: Order.approve_deletion cancels the order, marks the deletion as
\* approved and undoes the sale: once every order placed has been deleted
\* and the carts are empty, quantity and reservation_count of every
\* inventory-tracked product are what they were before the items went into
\* a cart.
C13_ApproveDeletionUndoesSale ==
    (/\ last.op = "approve_deletion"
     /\ \A c \in Customers : cart[c] = EmptyCart
     /\ \A i \in 1..Len(orders) : orders[i].delete_approved)
        => /\ \A i \in 1..Len(orders) : orders[i].status = "cancelled"
           /\ \A p \in Products :
                 prod[p].is_track_inventory
                     => /\ prod[p].quantity = InitStock
                        /\ prod[p].reservation_count = 0

(***************************************************************************)
(* Product.reserve_stock called alone on a row.                            *)
(***************************************************************************)
call_reserve_stock(n) ==
    /\ p_row.reservation_count + n <= MaxStock + MaxReserve
    /\ p_call' = [called |-> TRUE, n |-> n, ret |-> reserve_stock(p_row, n).ret,
                  pre |-> p_row]
    /\ p_row' = reserve_stock(p_row, n).row
    /\ UNCHANGED <<not_reserve_vars, conc_vars>>

ReserveInit ==
    /\ ShopIdle /\ ConcIdle /\ NumberIdle /\ ChatIdle
    /\ p_row \in Rows
    /\ p_call = NoCall

ReserveNext == \E n \in 0..MaxReserve : call_reserve_stock(n)

ReserveSpec == ReserveInit /\ [][ReserveNext]_vars

\* C3: on an inventory-tracked product reserve_stock(n) returns True and
\* adds exactly n to reservation_count, leaving every other field, if and
\* only if allow_backorder is set or max(0, quantity - reservation_count) >= n;
\* otherwise it returns False and changes nothing.  On a product that does
\* not track inventory it returns True and changes nothing.
C3_ReserveStockContract ==
    p_call.called =>
        LET pre == p_call.pre
            n == p_call.n
            enough == pre.allow_backorder
                      \/ Max(0, pre.quantity - pre.reservation_count) >= n
        IN IF pre.is_track_inventory
           THEN /\ p_call.ret = enough
                /\ enough => p_row = [pre EXCEPT !.reservation_count =
                                                     pre.reservation_count + n]
                /\ ~enough => p_row = pre
           ELSE p_call.ret = TRUE /\ p_row = pre

\* A call for exactly the available quantity of a tracked product without
\* backorder has been granted.
C3_Witness ==
    /\ p_call.called /\ p_call.ret = TRUE /\ p_call.n > 0
    /\ p_call.pre.is_track_inventory /\ ~p_call.pre.allow_backorder
    /\ p_call.pre.quantity - p_call.pre.reservation_count = p_call.n
    /\ p_row.reservation_count = p_call.pre.reservation_count + p_call.n

(***************************************************************************)
(* Product.reserve_stock called by several requests at once on one row.    *)
(* The steps are the database statements of the method.                    *)
(***************************************************************************)
\* select_for_update without a row lock.
RowLockIgnored(t) == TRUE

\* select_for_update waits while another transaction holds the row lock.
RowLockFree(t) == lock = "none"

\* `if not self.is_track_inventory: return True`
rs_untracked(t) ==
    /\ pc[t] = "start"
    /\ ~row0.is_track_inventory
    /\ pc' = [pc EXCEPT ![t] = "done"]
    /\ result' = [result EXCEPT ![t] = "true"]
    /\ UNCHANGED <<p_row, row0, lock, snapshot, req>>
    /\ UNCHANGED <<not_reserve_vars, p_call>>

\* `product = Product.objects.select_for_update().get(pk=self.pk)`
rs_select_for_update(t) ==
    /\ pc[t] = "start"
    /\ row0.is_track_inventory
    /\ RowLockFree(t)
    /\ lock' = t
    /\ snapshot' = [snapshot EXCEPT ![t] = p_row]
    /\ pc' = [pc EXCEPT ![t] = "locked"]
    /\ UNCHANGED <<p_row, row0, req, result>>
    /\ UNCHANGED <<not_reserve_vars, p_call>>

\* The check on the row read, then either `return False` (the transaction
\* ends and the lock is released) or the UPDATE with
\* F('reservation_count') + quantity, which the database applies to the
\* current value of the column.
rs_check_and_update(t) ==
    /\ pc[t] = "locked"
    /\ IF ~snapshot[t].allow_backorder
          /\ get_available_quantity(snapshot[t]) < req[t]
       THEN /\ result' = [result EXCEPT ![t] = "false"]
            /\ pc' = [pc EXCEPT ![t] = "done"]
            /\ lock' = IF lock = t THEN "none" ELSE lock
            /\ UNCHANGED p_row
       ELSE /\ p_row' = [p_row EXCEPT !.reservation_count = @ + req[t]]
            /\ pc' = [pc EXCEPT ![t] = "updated"]
            /\ UNCHANGED <<result, lock>>
    /\ UNCHANGED <<row0, snapshot, req>>
    /\ UNCHANGED <<not_reserve_vars, p_call>>

\* refresh_from_db, `return True`; leaving transaction.atomic commits and
\* releases the lock.
rs_return_true(t) ==
    /\ pc[t] = "updated"
    /\ result' = [result EXCEPT ![t] = "true"]
    /\ pc' = [pc EXCEPT ![t] = "done"]
    /\ lock' = IF lock = t THEN "none" ELSE lock
    /\ UNCHANGED <<p_row, row0, snapshot, req>>
    /\ UNCHANGED <<not_reserve_vars, p_call>>

ConcInit ==
    /\ ShopIdle /\ NumberIdle /\ ChatIdle
    /\ p_row \in Rows
    /\ p_call = NoCall
    /\ row0 = p_row
    /\ lock = "none"
    /\ pc = [t \in Callers |-> "start"]
    /\ snapshot = [t \in Callers |-> p_row]
    /\ req \in [Callers -> 1..MaxReserve]
    /\ result = [t \in Callers |-> "none"]

ConcNext ==
    \/ \E t \in Callers : rs_untracked(t)
    \/ \E t \in Callers : rs_select_for_update(t)
    \/ \E t \in Callers : rs_check_and_update(t)
    \/ \E t \in Callers : rs_return_true(t)

ConcSpec == ConcInit /\ [][ConcNext]_vars

\* The calls whose reservation has been written.
Granted == {t \in Callers : pc[t] = "updated" \/ result[t] = "true"}

GrantedTotal == SumOver([t \in Callers |-> IF t \in Granted THEN req[t] ELSE 0],
                        Callers)

\* C4: for an inventory-tracked product without backorder, the quantities of
\* the concurrent reserve_stock calls that succeed sum to at most the
\* quantity available when they started, each of them is added to
\* reservation_count, and reservation_count is not pushed above quantity.
C4_ConcurrentReservationsBounded ==
    (row0.is_track_inventory /\ ~row0.allow_backorder) =>
        /\ GrantedTotal <= get_available_quantity(row0)
        /\ p_row.reservation_count = row0.reservation_count + GrantedTotal
        /\ row0.reservation_count <= row0.quantity
               => p_row.reservation_count <= p_row.quantity

\* Every call has returned; one was granted and another one, which the stock
\* at the start would have covered, was refused.
C4_Witness ==
    /\ row0.is_track_inventory /\ ~row0.allow_backorder
    /\ \A t \in Callers : pc[t] = "done"
    /\ \E t, u \in Callers :
          /\ result[t] = "true"
          /\ result[u] = "false"
          /\ req[u] <= get_available_quantity(row0)

(***************************************************************************)
(* Order.save of a new order, run by several requests at once.  The steps  *)
(* are the database statements of Order.save, of the pre_save receiver and *)
(* of the INSERT.                                                          *)
(***************************************************************************)
\* What generate_order_number can return: "ORD-<date>-" and six hex digits
\* of a uuid4, which may repeat.
OrderNumbers == 1..NumOrderNumbers

\* Order.objects.filter(order_number=n).exists()
number_exists(n) == \E i \in 1..Len(stored) : stored[i] = n

\* An order_number column without a unique index.
no_unique_index(n) == FALSE

\* order_number is declared unique=True: the INSERT of a number that is
\* already stored raises IntegrityError.
unique_violation(n) == \E i \in 1..Len(stored) : stored[i] = n

\* `if not self.order_number: self.order_number = self.generate_order_number()`
os_generate(w) ==
    /\ w_pc[w] = "idle"
    /\ Len(stored) < MaxStored
    /\ \E n \in OrderNumbers : w_number' = [w_number EXCEPT ![w] = n]
    /\ w_pc' = [w_pc EXCEPT ![w] = "save_check"]
    /\ UNCHANGED stored
    /\ UNCHANGED not_number_vars

\* `while Order.objects.filter(order_number=...).exists(): regenerate`
os_save_check(w) ==
    /\ w_pc[w] = "save_check"
    /\ IF number_exists(w_number[w])
       THEN /\ \E n \in OrderNumbers : w_number' = [w_number EXCEPT ![w] = n]
            /\ UNCHANGED w_pc
       ELSE /\ w_pc' = [w_pc EXCEPT ![w] = "pre_save"]
            /\ UNCHANGED w_number
    /\ UNCHANGED stored
    /\ UNCHANGED not_number_vars

\* The pre_save receiver check_duplicate_order_number: it regenerates while
\* the number exists.
os_pre_save(w) ==
    /\ w_pc[w] = "pre_save"
    /\ IF number_exists(w_number[w])
       THEN /\ \E n \in OrderNumbers : w_number' = [w_number EXCEPT ![w] = n]
            /\ UNCHANGED w_pc
       ELSE /\ w_pc' = [w_pc EXCEPT ![w] = "insert"]
            /\ UNCHANGED w_number
    /\ UNCHANGED stored
    /\ UNCHANGED not_number_vars

\* super().save(): the INSERT.
os_insert(w) ==
    /\ w_pc[w] = "insert"
    /\ IF unique_violation(w_number[w])
       THEN /\ w_pc' = [w_pc EXCEPT ![w] = "integrity_error"]
            /\ UNCHANGED stored
       ELSE /\ stored' = Append(stored, w_number[w])
            /\ w_pc' = [w_pc EXCEPT ![w] = "saved"]
    /\ UNCHANGED w_number
    /\ UNCHANGED not_number_vars

\* The request ends; the creator may serve another one.
os_done(w) ==
    /\ w_pc[w] \in {"saved", "integrity_error"}
    /\ w_pc' = [w_pc EXCEPT ![w] = "idle"]
    /\ w_number' = [w_number EXCEPT ![w] = 0]
    /\ UNCHANGED stored
    /\ UNCHANGED not_number_vars

NumberInit == ShopIdle /\ CallIdle /\ ConcIdle /\ NumberIdle /\ ChatIdle

NumberNext ==
    \/ \E w \in Creators : os_generate(w)
    \/ \E w \in Creators : os_save_check(w)
    \/ \E w \in Creators : os_pre_save(w)
    \/ \E w \in Creators : os_insert(w)
    \/ \E w \in Creators : os_done(w)

NumberSpec == NumberInit /\ [][NumberNext]_vars

\* C6: no two stored orders share an order_number, after any sequence of
\* order creations, concurrent ones included.
C6_OrderNumbersDistinct ==
    \A i, j \in 1..Len(stored) : i # j => stored[i] # stored[j]

\* Two creations ran at once with the same number, both passed the exists()
\* checks, one was stored and the other one was stopped at the INSERT; a
\* regenerated number has been stored as well.
C6_Witness ==
    /\ Len(stored) >= 2
    /\ \E w \in Creators :
          /\ w_pc[w] = "integrity_error"
          /\ number_exists(w_number[w])

(***************************************************************************)
(* chat_send.  Texts are sequences of characters, so that strip(), lower() *)
(* and the `word in msg_lower` tests are computed on the message.          *)
(***************************************************************************)
Whitespace == {" "}

RECURSIVE lstrip(_)
lstrip(s) ==
    IF s = <<>> THEN s
    ELSE IF Head(s) \in Whitespace THEN lstrip(Tail(s)) ELSE s

RECURSIVE rstrip(_)
rstrip(s) ==
    IF s = <<>> THEN s
    ELSE IF s[Len(s)] \in Whitespace THEN rstrip(SubSeq(s, 1, Len(s) - 1)) ELSE s

\* str.strip()
strip(s) == rstrip(lstrip(s))

\* str.lower(), on the capitals the modelled messages use
lower_char(ch) ==
    CASE ch = "H" -> "h"
      [] ch = "S" -> "s"
      [] OTHER -> ch

lower(s) == [i \in 1..Len(s) |-> lower_char(s[i])]

\* `word in text`
contains(word, text) ==
    \E i \in 1..(Len(text) - Len(word) + 1) :
        SubSeq(text, i, i + Len(word) - 1) = word

GreetingWords ==
    { <<"h","i">>, <<"h","e","l","l","o">>, <<"h","e","y">>,
      <<"b","o","n","j","o","u","r">>, <<"m","u","r","a","h","o">> }

ShoppingWords ==
    { <<"p","r","o","d","u","c","t">>, <<"b","u","y">>,
      <<"p","r","i","c","e">>, <<"s","h","o","p">> }

Users == {"none", "alice"}      \* request.user: anonymous, or a signed-in user

username(user) ==
    IF user # "none" THEN <<"a","l","i","c","e">> ELSE <<"t","h","e","r","e">>

\* A responder that knows the keywords only.
get_simple_response_keywords_only(user_message, user) ==
    LET msg_lower == lower(user_message) IN
    IF \E word \in GreetingWords : contains(word, msg_lower)
    THEN [response |-> FString("Hello ", username(user),
                               "! I'm SokHub AI. How can I help you today?"),
          intent |-> "greeting"]
    ELSE IF contains(<<"s","o","k","h","u","b">>, msg_lower)
    THEN [response |-> Literal("SokHub is Rwanda's e-commerce marketplace! Buy and sell products easily."),
          intent |-> "platform_info"]
    ELSE IF \E word \in ShoppingWords : contains(word, msg_lower)
    THEN [response |-> Literal("Looking for products? I can help! Try asking for specific items."),
          intent |-> "shopping"]
    ELSE [response |-> Literal(""), intent |-> NoKey]

\* get_simple_response, the responder nested in chat_send
get_simple_response(user_message, user) ==
    LET msg_lower == lower(user_message) IN
    IF \E word \in GreetingWords : contains(word, msg_lower)
    THEN [response |-> FString("Hello ", username(user),
                               "! I'm SokHub AI. How can I help you today?"),
          intent |-> "greeting"]
    ELSE IF contains(<<"s","o","k","h","u","b">>, msg_lower)
    THEN [response |-> Literal("SokHub is Rwanda's e-commerce marketplace! Buy and sell products easily."),
          intent |-> "platform_info"]
    ELSE IF \E word \in ShoppingWords : contains(word, msg_lower)
    THEN [response |-> Literal("Looking for products? I can help! Try asking for specific items."),
          intent |-> "shopping"]
    ELSE [response |-> FString("I understand you're asking about '", user_message,
                               "'. I'm SokHub AI, here to help!"),
          intent |-> "general"]

\* The keyword arguments EnhancedAIService.process_chat_message declares, and
\* the ones chat_send passes: a call with an undeclared one raises TypeError.
process_chat_message_params == {"message", "user", "user_id", "session_context"}
process_chat_message_kwargs ==
    {"message", "user", "user_id", "session_context", "conversation_history"}
process_chat_message_raises ==
    ~(process_chat_message_kwargs \subseteq process_chat_message_params)

get_welcome_message(user) ==
    IF user = "none"
    THEN Literal("Hello! I'm your SokHub AI assistant. I can help you find products. How can I help you today?")
    ELSE Literal("Welcome back! How can I assist you today?")

\* ChatService.add_message
add_message(messages, session, role, content) ==
    Append(messages, [session |-> session, role |-> role, content |-> content])

FreeSessions(sessions) == {i \in 1..MaxSessions : sessions[i].state = "none"}

\* ChatService.create_chat_session: a row under a new random session_id and
\* its welcome message.
create_chat_session(sessions, messages, user) ==
    LET id == CHOOSE i \in FreeSessions(sessions) :
                  \A j \in FreeSessions(sessions) : i <= j
    IN [sessions |-> [sessions EXCEPT ![id] = [state |-> "active", user |-> user]],
        messages |-> add_message(messages, id, "assistant", get_welcome_message(user)),
        session |-> id]

\* ChatSession.objects.get(session_id=..., is_active=True[, user=user])
session_found(sessions, user, session_id) ==
    /\ session_id \in 1..MaxSessions
    /\ sessions[session_id].state = "active"
    /\ (user # "none" => sessions[session_id].user = user)

\* ChatService.get_or_create_session; timed_out is the outcome of the
\* comparison of the session's age with session_timeout.
get_or_create_session(sessions, messages, user, session_id, timed_out) ==
    LET found == session_found(sessions, user, session_id)
    IN  IF found /\ ~timed_out
        THEN [sessions |-> sessions, messages |-> messages, session |-> session_id]
        ELSE IF found
        THEN create_chat_session(
                 [sessions EXCEPT ![session_id].state = "inactive"], messages, user)
        ELSE create_chat_session(sessions, messages, user)

ErrorReply(status, error, response) ==
    [status |-> status, success |-> FALSE, error |-> error,
     response |-> Literal(response), intent |-> NoKey]

Replied(method, body, raised, reply) ==
    chat_last' = [handled |-> TRUE, method |-> method, body |-> body,
                  raised |-> raised,
                  stored |-> Len(chat_messages') - Len(chat_messages),
                  reply |-> reply]

\* chat_send.  sess_exc is the call of the chat-session service that raises,
\* if any.
chat_send(method, body, user, sess_exc, timed_out) ==
    LET message == strip(IF body.msg_type = "absent" THEN <<>> ELSE body.message)
        session_id == body.session_id
        with_session == /\ chat_cfg.HAS_CHAT_SERVICE /\ chat_cfg.HAS_CHAT_MODELS
                        /\ session_id # 0
        got == get_or_create_session(chat_sessions, chat_messages, user,
                                     session_id, timed_out)
    IN
    /\ UNCHANGED <<chat_cfg, not_chat_vars>>
    /\ IF method # "POST"
       THEN /\ UNCHANGED <<chat_sessions, chat_messages>>
            /\ Replied(method, body, FALSE,
                       ErrorReply(405, "Method not allowed", "Please use POST method"))
       ELSE IF body.kind = "unparsable"
       THEN /\ UNCHANGED <<chat_sessions, chat_messages>>
            /\ Replied(method, body, FALSE,
                       ErrorReply(400, "Invalid JSON", "Please send valid JSON"))
       ELSE IF body.kind # "object" \/ body.msg_type = "other"
       THEN \* data.get or .strip() raises AttributeError: the outer handler
            /\ UNCHANGED <<chat_sessions, chat_messages>>
            /\ Replied(method, body, FALSE,
                       ErrorReply(500, "AttributeError",
                           "Sorry, I encountered an error processing your message."))
       ELSE IF message = <<>>
       THEN /\ UNCHANGED <<chat_sessions, chat_messages>>
            /\ Replied(method, body, FALSE,
                       ErrorReply(400, "Empty message", "Please provide a message"))
       ELSE IF chat_cfg.HAS_ENHANCED_AI
       THEN /\ IF ~with_session
               THEN UNCHANGED <<chat_sessions, chat_messages>>
               ELSE IF sess_exc = "get_or_create_session"
               THEN UNCHANGED <<chat_sessions, chat_messages>>
               ELSE /\ \/ session_found(chat_sessions, user, session_id) /\ ~timed_out
                       \/ FreeSessions(chat_sessions) # {}
                    /\ chat_sessions' = got.sessions
                    /\ chat_messages' =
                          IF sess_exc = "add_message" THEN got.messages
                          ELSE add_message(got.messages, got.session, "user",
                                           FString("", message, ""))
                    /\ Len(chat_messages') <= MaxMessages
            /\ process_chat_message_raises
            /\ Replied(method, body, with_session /\ sess_exc # "none",
                       [status |-> 200, success |-> TRUE, error |-> NoKey]
                           @@ get_simple_response(message, user))
       ELSE /\ UNCHANGED <<chat_sessions, chat_messages>>
            /\ Replied(method, body, FALSE,
                       [status |-> 200, success |-> TRUE, error |-> NoKey]
                           @@ get_simple_response(message, user))

\* The request bodies: bytes that are not JSON, JSON that is not an object,
\* and objects whose "message" is missing, not a string, or one of a few
\* strings.
Messages ==
    { <<>>, <<" ", " ">>, <<" ", "h", "i", " ">>, <<"H", "e", "y">>,
      <<"t", "h", "i", "n", "g">>, <<"S", "o", "k", "H", "u", "b">>,
      <<"b", "u", "y">>, <<"o", "k">> }

Bodies ==
    {NoBody, [NoBody EXCEPT !.kind = "not_object"]}
    \cup [kind : {"object"}, msg_type : {"absent", "other"}, message : {<<>>},
          session_id : 0..MaxSessions]
    \cup [kind : {"object"}, msg_type : {"string"}, message : Messages,
          session_id : 0..MaxSessions]

ChatInit ==
    /\ ShopIdle /\ CallIdle /\ ConcIdle /\ NumberIdle
    /\ chat_cfg \in [HAS_ENHANCED_AI : BOOLEAN, HAS_CHAT_SERVICE : BOOLEAN,
                     HAS_CHAT_MODELS : BOOLEAN]
    /\ chat_sessions = [i \in 1..MaxSessions |-> [state |-> "none", user |-> "none"]]
    /\ chat_messages = <<>>
    /\ chat_last = [handled |-> FALSE, method |-> "GET", body |-> NoBody,
                    raised |-> FALSE, stored |-> 0,
                    reply |-> [status |-> 0, success |-> FALSE, error |-> NoKey,
                               response |-> Literal(""), intent |-> NoKey]]

\* The requests; what a path of chat_send does not read is not varied.
chat_send_not_post ==
    \E body \in Bodies : chat_send("GET", body, "none", "none", FALSE)

chat_send_without_session ==
    \E body \in Bodies, user \in Users :
        /\ body.msg_type # "string" \/ body.session_id = 0
        /\ chat_send("POST", body, user, "none", FALSE)

chat_send_with_session ==
    \E body \in Bodies, user \in Users,
       sess_exc \in {"none", "get_or_create_session", "add_message"},
       timed_out \in BOOLEAN :
        /\ body.msg_type = "string" /\ body.session_id # 0
        /\ chat_send("POST", body, user, sess_exc, timed_out)

ChatNext ==
    \/ chat_send_not_post
    \/ chat_send_without_session
    \/ chat_send_with_session

ChatSpec == ChatInit /\ [][ChatNext]_vars

\* A message of whitespace only, which strip() empties.
IsBlank(text) == \A i \in 1..Len(text) : text[i] = " "

TextMessage(body) == body.kind = "object" /\ body.msg_type # "other"

Tracked(p) == prod[p].is_track_inventory
TrackedNoBackorder(p) == prod[p].is_track_inventory /\ ~prod[p].allow_backorder

\* C1: after any sequence of cart_add, cart_update, cart_remove and
\* cart_clear requests, the reservation_count of every inventory-tracked
\* product equals the sum of the quantities of that product over all cart
\* items.
C1_ReservationEqualsCarts ==
    \A p \in Products :
        Tracked(p) => prod[p].reservation_count = CartTotal(cart, p)

\* C2: a checkout that creates an order lowers the quantity of every
\* inventory-tracked product of the cart by exactly the cart quantity, empties
\* the cart, and leaves reservation_count equal to the units still held in
\* the remaining carts.
C2_CheckoutConvertsReservation ==
    [][(last'.op = "checkout" /\ last'.outcome = "ok") =>
          LET c == last'.customer IN
          /\ cart'[c] = EmptyCart
          /\ \A p \in Products :
                (Tracked(p) /\ cart[c][p] > 0) =>
                    /\ prod'[p].quantity = prod[p].quantity - cart[c][p]
                    /\ prod'[p].reservation_count = CartTotal(cart', p)
      ]_vars

\* Units of product p ordered so far.
OrderedTotal(p) ==
    SumOver([i \in 1..Len(orders) |-> orders[i].items[p]], 1..Len(orders))

\* C7: over the lifetime of an order each item is deducted from its product's
\* quantity and added to purchase_count exactly once: purchase_count of an
\* inventory-tracked product is the number of its units ordered, whatever
\* payment handlers ran after the checkout.
C7_ItemsCommittedOnce ==
    \A p \in Products :
        Tracked(p) => prod[p].purchase_count = OrderedTotal(p)

\* C8: when order creation fails inside the checkout transaction, the
\* products' counters and the cart are, after the error handler, what they
\* were before the request.
C8_FailedCheckoutRestoresState ==
    [][(last'.op = "checkout" /\ last'.outcome = "failed") =>
          (prod' = prod /\ cart' = cart)]_vars

\* The only reservations on the products of c's cart are c's own, and the
\* stock still covers them.
OwnReservationsOnly(c) ==
    \A p \in CartItems(c) :
        TrackedNoBackorder(p) =>
            /\ prod[p].reservation_count = cart[c][p]
            /\ prod[p].reservation_count <= prod[p].quantity

\* C9: the stock validation of checkout_view never rejects a cart whose
\* items are all reserved when no one else holds a reservation on them.
C9_ReservedCartPassesValidation ==
    (last.op = "checkout" /\ last.outcome \in {"out_of_stock", "insufficient"})
        => ~OwnReservationsOnly(last.customer)

\* C10: for every inventory-tracked product without backorder,
\* 0 <= reservation_count <= quantity in every reachable state.
C10_ReservationWithinStock ==
    \A p \in Products :
        TrackedNoBackorder(p) =>
            (0 <= prod[p].reservation_count
             /\ prod[p].reservation_count <= prod[p].quantity)

=============================================================================
